---- MODULE Spec2Model ----
(***************************************************************************)
(* Model of speech_server.py: the subscriber registry (connected_clients   *)
(* guarded by clients_lock), the broadcast of transcript events            *)
(* (broadcast_transcript), the per-connection handler (websocket_handler), *)
(* the session log (create_session_file, log_transcript and the shutdown   *)
(* code of __main__) and the callback on_text.                             *)
(*                                                                         *)
(* Execution contexts:                                                     *)
(*   - the callback threads of the recognition engine, one for the         *)
(*     realtime updates registered at line 148 ("rt", is_final = False)    *)
(*     and one for the finished transcriptions registered at line 158      *)
(*     ("fin", is_final = True); each runs on_text synchronously;          *)
(*   - the connection handlers, one per websocket, on the server's loop;   *)
(*   - the main thread, which opens the session log and closes it.         *)
(* Steps are cut where another context can observe or change shared state: *)
(* at lock acquisitions, at each file write, and at each awaited send.     *)
(***************************************************************************)
EXTENDS Naturals, Sequences, FiniteSets

\* ---------------------------------------------------------------- bounds
NumClients == 3
MaxEvents == 2

Clients == 1..NumClients
Threads == {"rt", "fin"}
Texts == {"hello", "hello world"}

NoClient == 0

\* Invocations of websocket_handler. The server starts one per connection;
\* Second stands for the handler being invoked once more with the websocket of
\* handler 1, which only the registration scenario (SpecReg) lets happen.
Second == NumClients + 1
Handlers == Clients \cup {Second}
Socket(h) == IF h = Second THEN 1 ELSE h
Free == "free"
NoExc == "none"

VARIABLES
  connected_clients,  \* line 10: the set of registered websockets
  clients_lock,       \* line 11: Free, or the context holding the lock
  unguarded,          \* operations done on connected_clients without the lock
  hpc,                \* websocket_handler: position of each connection's handler
  hexit,              \* how a handler left its read loop, until its cleanup is done
  unregistered,       \* times each handler executed its cleanup discard
  herr,               \* exception raised by a handler's own set operations
  pc,                 \* on_text: position of each callback thread
  ev,                 \* the (text, is_final) of the current on_text call
  msg,                \* broadcast_transcript: the serialized message
  snap,               \* the snapshot copy taken at line 70
  todo,               \* snapshot members not yet iterated
  cur,                \* the client whose send is in progress
  attempts,           \* per call: number of send attempts per client
  received,           \* per call: payloads each client received
  failed,             \* per call: clients whose send raised
  exc,                \* exception that left the last on_text call
  late,               \* the last on_text call began after the file was closed
  events,             \* number of on_text calls that went on to write the log
  session_file,       \* line 14: "None", "open" or "closed" (a closed file object)
  session_start_time, \* line 15
  content,            \* the writes the session file holds, in order
  files,              \* number of files created
  calls,              \* log_transcript calls that passed the None check, in order
  overlap,            \* some writer started while another was writing
  mpc,                \* __main__: position of the main thread
  recorder,           \* the AudioToTextRecorder: "absent", "running", "stopped"
  inits,              \* ghost: how often creating the recorder was begun
  stops,              \* ghost: calls of recorder.stop()
  closes              \* ghost: calls of session_file.close()

hubVars == <<connected_clients, clients_lock, unguarded, hpc, hexit, unregistered, herr>>
pubVars == <<msg, snap, todo, cur, attempts, received, failed>>
cbVars == <<pc, ev, exc, late, events>>
logVars == <<session_file, session_start_time, content, files, calls, overlap>>
mainVars == <<mpc, recorder, inits, stops, closes>>
vars == <<hubVars, pubVars, cbVars, logVars, mainVars>>

\* ------------------------------------------------------------ pure parts

\* variant: a registration that takes out a member it finds
toggle(s, x) == IF x \in s THEN [set |-> s \ {x}, exc |-> NoExc]
                ELSE [set |-> s \cup {x}, exc |-> NoExc]

\* set.add / set.discard / set.copy of the builtin set (lines 102, 79, 112, 70)
add(s, x) == [set |-> s \cup {x}, exc |-> NoExc]

\* variant: set.remove, which raises KeyError for an absent member
remove(s, x) == IF x \in s THEN [set |-> s \ {x}, exc |-> NoExc]
                ELSE [set |-> s, exc |-> "KeyError"]

\* variant: set.clear in place of set.discard
clear(s, x) == [set |-> {}, exc |-> NoExc]

\* variant: the failed subscriber is left in the set
keep(s, x) == [set |-> s, exc |-> NoExc]

\* set.discard: no error for an absent member
discard(s, x) == [set |-> s \ {x}, exc |-> NoExc]

\* set.copy: a new set with the same members
copy(s) == s

\* datetime.now().strftime("%H:%M:%S"): the wall clock is not modelled, only
\* the shape of what strftime returns.
Timestamp == "HH:MM:SS"

\* json.dumps of the dict at lines 62-66
json_dumps(text, is_final) ==
  [text |-> text, is_final |-> is_final, timestamp |-> Timestamp]

\* variant: the two tags of line 50 exchanged
StatusTagSwapped(is_final) == IF is_final THEN "PARTIAL" ELSE "FINAL"

\* line 50
StatusTag(is_final) == IF is_final THEN "FINAL" ELSE "PARTIAL"

\* the writes of create_session_file (lines 36-38), one element per write call
Header ==
  << <<"Audio Transcription Log", "nl">>,
     <<"Started: ", "Y-m-d H:M:S", "nl">>,
     <<"rule80", "nl", "nl">> >>

\* the writes of log_transcript (lines 53-54)
StampLine(is_final) == <<"[", Timestamp, "] [", StatusTag(is_final), "]", "nl">>
TextLine(text) == <<"Text: ", text, "nl", "nl">>

\* the writes of the shutdown code (lines 181-183)
FooterRule == <<"nl", "rule80", "nl">>
FooterEnd == <<"Session ended: ", "Y-m-d H:M:S", "nl">>
FooterDuration == <<"Duration: ", "timedelta", "nl">>

\* variant: the test of line 46 inverted
LogSkipsInverted(sf) == sf # "None"

\* variant: log_transcript without the test of line 46
LogSkipsNever(sf) == FALSE

\* line 46
LogSkips(sf) == sf = "None"

\* variant: the loop of line 73 placed inside the with-block
LockHeldIntoLoop(t) == t

\* the with-block at lines 68-70 ends before the loop at line 73
LockAfterSnapshot(t) == Free

\* variant: the loop iterating the shared set instead of the copy
TargetsLive(t) == connected_clients \ {c \in Clients : attempts[t][c] > 0}

\* the for loop at line 73 iterates the copy, not the shared set
Targets(t) == todo[t]

\* variant: the try/except around the loop, so that a failure ends it
RestAbandoned(rest) == {}

\* lines 74-79: the except clause lets the loop go on with the rest
RestAfterFailure(rest) == rest

\* variant: the discard at the end of the try block, after the read loop
CleanupOnlyClean(cause) == cause = "clean"

\* variant: the discard after the except clause instead of in a finally
CleanupSkipsCancel(cause) == cause # "cancel"

\* lines 104-112: the finally clause runs on every way out of the try block
CleanupRuns(cause) == TRUE

\* line 171: recorder.stop() is called when the name recorder was bound
StopSkipped(rec) == FALSE
StopAttempted(rec) == rec # "absent"

IsFinal(t) == t = "fin"

Touch(who, op) == IF clients_lock = who THEN unguarded ELSE unguarded \cup {op}

\* the locals of a call that is not running
NoEvent == [text |-> "", is_final |-> FALSE]
NoMessage == [text |-> "", is_final |-> FALSE, timestamp |-> ""]
ZeroAttempts == [c \in Clients |-> 0]
NoneReceived == [c \in Clients |-> << >>]

\* ----------------------------------------------------------------- Init
Init ==
  /\ connected_clients = {}
  /\ clients_lock = Free
  /\ unguarded = {}
  /\ hpc = [h \in Handlers |-> "new"]
  /\ hexit = [h \in Handlers |-> "none"]
  /\ unregistered = [h \in Handlers |-> 0]
  /\ herr = [h \in Handlers |-> NoExc]
  /\ pc = [t \in Threads |-> "idle"]
  /\ ev = [t \in Threads |-> NoEvent]
  /\ msg = [t \in Threads |-> NoMessage]
  /\ snap = [t \in Threads |-> {}]
  /\ todo = [t \in Threads |-> {}]
  /\ cur = [t \in Threads |-> NoClient]
  /\ attempts = [t \in Threads |-> ZeroAttempts]
  /\ received = [t \in Threads |-> NoneReceived]
  /\ failed = [t \in Threads |-> {}]
  /\ exc = [t \in Threads |-> NoExc]
  /\ late = [t \in Threads |-> FALSE]
  /\ events = 0
  /\ session_file = "None"
  /\ session_start_time = "None"
  /\ content = << >>
  /\ files = 0
  /\ calls = << >>
  /\ overlap = FALSE
  /\ mpc = "init"
  /\ recorder = "absent"
  /\ inits = 0
  /\ stops = 0
  /\ closes = 0

\* ------------------------------------------------- websocket_handler
\* The server's loop runs one handler at a time, and a handler gives the loop
\* away only at an await: lines 99-102 and lines 108-113 contain none, so from
\* the start of a handler to its add, and from the end of its read loop to its
\* discard, no other handler runs.
LoopBusy == \E h \in Handlers : hpc[h] \in {"adding", "left", "discarding"}

\* lines 99-101: a new connection; the handler takes the lock
HRegisterAcquire(h) ==
  /\ hpc[h] = "new"
  /\ ~LoopBusy
  /\ clients_lock = Free
  /\ clients_lock' = "loop"
  /\ hpc' = [hpc EXCEPT ![h] = "adding"]
  /\ UNCHANGED <<connected_clients, unguarded, hexit, unregistered, herr>>
  /\ UNCHANGED <<pubVars, cbVars, logVars, mainVars>>

\* line 102 and the end of the with-block
HRegister(h) ==
  /\ hpc[h] = "adding"
  /\ clients_lock = "loop"
  /\ connected_clients' = add(connected_clients, Socket(h)).set
  /\ unguarded' = Touch("loop", "add")
  /\ clients_lock' = Free
  /\ herr' = [herr EXCEPT ![h] = add(connected_clients, Socket(h)).exc]
  /\ hpc' = [hpc EXCEPT ![h] = "reading"]
  /\ UNCHANGED <<hexit, unregistered>>
  /\ UNCHANGED <<pubVars, cbVars, logVars, mainVars>>

\* lines 104-110: the read loop ends (clean close), raises (error, caught at
\* line 108) or is cancelled (CancelledError passes the except clause)
HLeave(h, cause) ==
  /\ hpc[h] = "reading"
  /\ ~LoopBusy
  /\ hexit' = [hexit EXCEPT ![h] = cause]
  /\ hpc' = [hpc EXCEPT ![h] = IF CleanupRuns(cause) THEN "left" ELSE "done"]
  /\ UNCHANGED <<connected_clients, clients_lock, unguarded, unregistered, herr>>
  /\ UNCHANGED <<pubVars, cbVars, logVars, mainVars>>

\* line 111
HCleanupAcquire(h) ==
  /\ hpc[h] = "left"
  /\ clients_lock = Free
  /\ clients_lock' = "loop"
  /\ hpc' = [hpc EXCEPT ![h] = "discarding"]
  /\ UNCHANGED <<connected_clients, unguarded, hexit, unregistered, herr>>
  /\ UNCHANGED <<pubVars, cbVars, logVars, mainVars>>

\* lines 112-113; an exception of the set operation would leave the handler
\* through the with-block, which releases the lock
HCleanup(h) ==
  /\ hpc[h] = "discarding"
  /\ clients_lock = "loop"
  /\ connected_clients' = discard(connected_clients, Socket(h)).set
  /\ unguarded' = Touch("loop", "discard")
  /\ clients_lock' = Free
  /\ unregistered' = [unregistered EXCEPT ![h] = @ + 1]
  /\ herr' = [herr EXCEPT ![h] = discard(connected_clients, Socket(h)).exc]
  /\ hpc' = [hpc EXCEPT ![h] = "done"]
  /\ hexit' = [hexit EXCEPT ![h] = "none"]
  /\ UNCHANGED <<pubVars, cbVars, logVars, mainVars>>

\* ------------------------------------------------------------ on_text
Writing(t) == pc[t] \in {"log1", "log2"}

MainWriting == mpc \in {"footer2", "footer3", "close"}

\* lines 82-95 up to the call of log_transcript, and lines 46-50 of it: the
\* engine calls back with a text; log_transcript returns at once when there is
\* no session file
OnText(t, text) ==
  /\ pc[t] = "idle"
  /\ LogSkips(session_file) \/ events < MaxEvents
  /\ events' = IF LogSkips(session_file) THEN events ELSE events + 1
  /\ ev' = [ev EXCEPT ![t] = [text |-> text, is_final |-> IsFinal(t)]]
  /\ exc' = [exc EXCEPT ![t] = NoExc]
  /\ late' = [late EXCEPT ![t] = (session_file = "closed")]
  /\ IF LogSkips(session_file)
       THEN /\ pc' = [pc EXCEPT ![t] = "bcheck"]
            /\ UNCHANGED <<calls, overlap>>
       ELSE /\ pc' = [pc EXCEPT ![t] = "log1"]
            /\ calls' = IF session_file = "open"
                          THEN Append(calls, [text |-> text, is_final |-> IsFinal(t)])
                          ELSE calls
            /\ overlap' = (overlap \/ MainWriting
                           \/ \E u \in Threads \ {t} : Writing(u))
  /\ UNCHANGED <<session_file, session_start_time, content, files>>
  /\ UNCHANGED <<hubVars, pubVars, mainVars>>

\* what a write or flush on the session file raises: nothing on an open file,
\* ValueError on a closed one, AttributeError on None
WriteExc(sf) == IF sf = "open" THEN NoExc
                ELSE IF sf = "closed" THEN "ValueError" ELSE "AttributeError"

\* line 53; an exception leaves log_transcript and on_text
LogStamp(t) ==
  /\ pc[t] = "log1"
  /\ IF WriteExc(session_file) = NoExc
       THEN /\ content' = Append(content, StampLine(ev[t].is_final))
            /\ pc' = [pc EXCEPT ![t] = "log2"]
            /\ UNCHANGED <<exc, ev>>
       ELSE /\ exc' = [exc EXCEPT ![t] = WriteExc(session_file)]
            /\ pc' = [pc EXCEPT ![t] = "idle"]
            /\ ev' = [ev EXCEPT ![t] = NoEvent]
            /\ UNCHANGED content
  /\ UNCHANGED <<late, events, session_file, session_start_time, files, calls, overlap>>
  /\ UNCHANGED <<hubVars, pubVars, mainVars>>

\* lines 54-55
LogText(t) ==
  /\ pc[t] = "log2"
  /\ IF WriteExc(session_file) = NoExc
       THEN /\ content' = Append(content, TextLine(ev[t].text))
            /\ pc' = [pc EXCEPT ![t] = "bcheck"]
            /\ UNCHANGED <<exc, ev>>
       ELSE /\ exc' = [exc EXCEPT ![t] = WriteExc(session_file)]
            /\ pc' = [pc EXCEPT ![t] = "idle"]
            /\ ev' = [ev EXCEPT ![t] = NoEvent]
            /\ UNCHANGED content
  /\ UNCHANGED <<late, events, session_file, session_start_time, files, calls, overlap>>
  /\ UNCHANGED <<hubVars, pubVars, mainVars>>

\* ------------------------------------------------ broadcast_transcript
\* lines 59-66: the emptiness test, made without the lock, then the message
BCheck(t) ==
  /\ pc[t] = "bcheck"
  /\ unguarded' = Touch(t, "truth")
  /\ IF connected_clients = {}
       THEN /\ pc' = [pc EXCEPT ![t] = "idle"]
            /\ ev' = [ev EXCEPT ![t] = NoEvent]
            /\ UNCHANGED msg
       ELSE /\ pc' = [pc EXCEPT ![t] = "block"]
            /\ msg' = [msg EXCEPT ![t] = json_dumps(ev[t].text, ev[t].is_final)]
            /\ UNCHANGED ev
  /\ UNCHANGED <<connected_clients, clients_lock, hpc, hexit, unregistered, herr>>
  /\ UNCHANGED <<snap, todo, cur, attempts, received, failed>>
  /\ UNCHANGED <<exc, late, events, logVars, mainVars>>

\* line 68
BSnapshotAcquire(t) ==
  /\ pc[t] = "block"
  /\ clients_lock = Free
  /\ clients_lock' = t
  /\ pc' = [pc EXCEPT ![t] = "bcopy"]
  /\ UNCHANGED <<connected_clients, unguarded, hpc, hexit, unregistered, herr>>
  /\ UNCHANGED <<pubVars, ev, exc, late, events, logVars, mainVars>>

\* line 70 and the end of the with-block
BSnapshot(t) ==
  /\ pc[t] = "bcopy"
  /\ snap' = [snap EXCEPT ![t] = copy(connected_clients)]
  /\ todo' = [todo EXCEPT ![t] = copy(connected_clients)]
  /\ unguarded' = Touch(t, "copy")
  /\ clients_lock' = LockAfterSnapshot(t)
  /\ pc' = [pc EXCEPT ![t] = "bloop"]
  /\ UNCHANGED <<connected_clients, hpc, hexit, unregistered, herr>>
  /\ UNCHANGED <<msg, cur, attempts, received, failed>>
  /\ UNCHANGED <<ev, exc, late, events, logVars, mainVars>>

\* lines 73-75: the loop takes a next client and awaits its send
BSendBegin(t, c) ==
  /\ pc[t] = "bloop"
  /\ c \in Targets(t)
  /\ cur' = [cur EXCEPT ![t] = c]
  /\ todo' = [todo EXCEPT ![t] = @ \ {c}]
  /\ attempts' = [attempts EXCEPT ![t][c] = @ + 1]
  /\ pc' = [pc EXCEPT ![t] = "bsend"]
  /\ UNCHANGED <<msg, snap, received, failed>>
  /\ UNCHANGED <<hubVars, ev, exc, late, events, logVars, mainVars>>

\* line 75: the send completes
BSendOk(t) ==
  /\ pc[t] = "bsend"
  /\ received' = [received EXCEPT ![t][cur[t]] = Append(@, msg[t])]
  /\ cur' = [cur EXCEPT ![t] = NoClient]
  /\ pc' = [pc EXCEPT ![t] = "bloop"]
  /\ UNCHANGED <<msg, snap, todo, attempts, failed>>
  /\ UNCHANGED <<hubVars, ev, exc, late, events, logVars, mainVars>>

\* lines 75-76: the send raises
BSendFail(t) ==
  /\ pc[t] = "bsend"
  /\ failed' = [failed EXCEPT ![t] = @ \cup {cur[t]}]
  /\ todo' = [todo EXCEPT ![t] = RestAfterFailure(@)]
  /\ pc' = [pc EXCEPT ![t] = "bexc"]
  /\ UNCHANGED <<msg, snap, cur, attempts, received>>
  /\ UNCHANGED <<hubVars, ev, exc, late, events, logVars, mainVars>>

\* line 78
BDiscardAcquire(t) ==
  /\ pc[t] = "bexc"
  /\ clients_lock = Free
  /\ clients_lock' = t
  /\ pc' = [pc EXCEPT ![t] = "bdisc"]
  /\ UNCHANGED <<connected_clients, unguarded, hpc, hexit, unregistered, herr>>
  /\ UNCHANGED <<pubVars, ev, exc, late, events, logVars, mainVars>>

\* line 79 and the end of the with-block; an exception of the set operation
\* would leave the except clause, the coroutine and on_text
BDiscard(t) ==
  /\ pc[t] = "bdisc"
  /\ connected_clients' = discard(connected_clients, cur[t]).set
  /\ unguarded' = Touch(t, "discard")
  /\ clients_lock' = Free
  /\ cur' = [cur EXCEPT ![t] = NoClient]
  /\ exc' = [exc EXCEPT ![t] = discard(connected_clients, cur[t]).exc]
  /\ pc' = [pc EXCEPT ![t] =
        IF discard(connected_clients, cur[t]).exc = NoExc THEN "bloop" ELSE "idle"]
  /\ UNCHANGED <<hpc, hexit, unregistered, herr>>
  /\ UNCHANGED <<msg, snap, todo, attempts, received, failed>>
  /\ UNCHANGED <<ev, late, events, logVars, mainVars>>

\* line 73 with nothing left: the coroutine, asyncio.run and on_text return
BReturn(t) ==
  /\ pc[t] = "bloop"
  /\ Targets(t) = {}
  /\ pc' = [pc EXCEPT ![t] = "idle"]
  /\ snap' = [snap EXCEPT ![t] = {}]
  /\ todo' = [todo EXCEPT ![t] = {}]
  /\ attempts' = [attempts EXCEPT ![t] = ZeroAttempts]
  /\ received' = [received EXCEPT ![t] = NoneReceived]
  /\ failed' = [failed EXCEPT ![t] = {}]
  /\ msg' = [msg EXCEPT ![t] = NoMessage]
  /\ ev' = [ev EXCEPT ![t] = NoEvent]
  /\ UNCHANGED cur
  /\ UNCHANGED <<hubVars, exc, late, events, logVars, mainVars>>

\* ------------------------------------------------------------- __main__
\* lines 20-42 (create_session_file, called at line 128) and lines 131-132:
\* nothing else of the program runs before the file and its header exist
CreateSessionFile ==
  /\ mpc = "init"
  /\ session_file' = "open"
  /\ session_start_time' = "Y-m-d H:M:S"
  /\ content' = Header
  /\ files' = files + 1
  /\ mpc' = "serving"
  /\ UNCHANGED <<calls, overlap, recorder, inits, stops, closes>>
  /\ UNCHANGED <<hubVars, pubVars, cbVars>>

\* lines 136-152: the recorder is created
RecorderCreated ==
  /\ mpc = "serving"
  /\ recorder' = "running"
  /\ inits' = inits + 1
  /\ mpc' = "listening"
  /\ UNCHANGED <<stops, closes, hubVars, pubVars, cbVars, logVars>>

\* lines 162-167: creating the recorder raises, or is interrupted
InitFails ==
  /\ mpc = "serving"
  /\ inits' = inits + 1
  /\ mpc' = "stop"
  /\ UNCHANGED <<recorder, stops, closes, hubVars, pubVars, cbVars, logVars>>

\* lines 155-161: Ctrl+C while listening
Interrupt ==
  /\ mpc = "listening"
  /\ mpc' = "stop"
  /\ UNCHANGED <<recorder, inits, stops, closes, hubVars, pubVars, cbVars, logVars>>

\* lines 170-174: stop the recorder if there is one; an exception of stop()
\* is swallowed and leaves the recorder running
StopRecorder(ok) ==
  /\ mpc = "stop"
  /\ IF StopAttempted(recorder)
       THEN /\ stops' = stops + 1
            /\ recorder' = IF ok THEN "stopped" ELSE recorder
       ELSE UNCHANGED <<recorder, stops>>
  /\ mpc' = "footer1"
  /\ UNCHANGED <<inits, closes, hubVars, pubVars, cbVars, logVars>>

\* lines 177-181
FooterRuleWrite ==
  /\ mpc = "footer1"
  /\ IF session_file # "None"
       THEN /\ content' = Append(content, FooterRule)
            /\ overlap' = (overlap \/ \E t \in Threads : Writing(t))
            /\ mpc' = "footer2"
       ELSE /\ mpc' = "done"
            /\ UNCHANGED <<content, overlap>>
  /\ UNCHANGED <<session_file, session_start_time, files, calls, recorder, inits, stops, closes>>
  /\ UNCHANGED <<hubVars, pubVars, cbVars>>

\* line 182
FooterEndWrite ==
  /\ mpc = "footer2"
  /\ content' = Append(content, FooterEnd)
  /\ mpc' = "footer3"
  /\ UNCHANGED <<session_file, session_start_time, files, calls, overlap, recorder,
                 inits, stops, closes>>
  /\ UNCHANGED <<hubVars, pubVars, cbVars>>

\* line 183
FooterDurationWrite ==
  /\ mpc = "footer3"
  /\ content' = Append(content, FooterDuration)
  /\ mpc' = "close"
  /\ UNCHANGED <<session_file, session_start_time, files, calls, overlap, recorder,
                 inits, stops, closes>>
  /\ UNCHANGED <<hubVars, pubVars, cbVars>>

\* lines 184-185: the file object is closed; session_file still refers to it
CloseSessionFile ==
  /\ mpc = "close"
  /\ session_file' = "closed"
  /\ mpc' = "done"
  /\ closes' = closes + 1
  /\ UNCHANGED <<session_start_time, content, files, calls, overlap, recorder, inits, stops>>
  /\ UNCHANGED <<hubVars, pubVars, cbVars>>

\* ------------------------------------------------------- specification
HandlerNext ==
  \/ \E c \in Clients : HRegisterAcquire(c)
  \/ \E c \in Clients : HRegister(c)
  \/ \E c \in Clients : \E cause \in {"clean", "error", "cancel"} : HLeave(c, cause)
  \/ \E c \in Clients : HCleanupAcquire(c)
  \/ \E c \in Clients : HCleanup(c)

LogNext ==
  \/ \E t \in Threads : LogStamp(t)
  \/ \E t \in Threads : LogText(t)

PublishNext ==
  \/ \E t \in Threads : BCheck(t)
  \/ \E t \in Threads : BSnapshotAcquire(t)
  \/ \E t \in Threads : BSnapshot(t)
  \/ \E t \in Threads : \E c \in Clients : BSendBegin(t, c)
  \/ \E t \in Threads : BSendOk(t)
  \/ \E t \in Threads : BSendFail(t)
  \/ \E t \in Threads : BDiscardAcquire(t)
  \/ \E t \in Threads : BDiscard(t)
  \/ \E t \in Threads : BReturn(t)

MainNext ==
  \/ CreateSessionFile
  \/ RecorderCreated
  \/ InitFails
  \/ Interrupt
  \/ \E ok \in BOOLEAN : StopRecorder(ok)
  \/ FooterRuleWrite
  \/ FooterEndWrite
  \/ FooterDurationWrite
  \/ CloseSessionFile

\* The whole program: any callback thread may call on_text at any time.
Next ==
  \/ HandlerNext
  \/ \E t \in Threads : \E text \in Texts : OnText(t, text)
  \/ LogNext
  \/ PublishNext
  \/ MainNext

Spec == Init /\ [][Next]_vars

\* The hub: the connection handlers against the callbacks, the engine
\* delivering one callback at a time. The main thread takes no step, so there
\* is no session file and log_transcript returns at line 47.
SerialOnText(t, text) ==
  /\ \A u \in Threads : pc[u] = "idle"
  /\ OnText(t, text)

HubNext ==
  \/ HandlerNext
  \/ \E t \in Threads : \E text \in Texts : SerialOnText(t, text)
  \/ PublishNext

SpecHub == Init /\ [][HubNext]_vars

\* Liveness: one websocket against the two callback threads, which may call
\* on_text at the same time, so that three contexts compete for clients_lock.
\* A thread or a handler that can take its next step takes it (the operating
\* system runs every runnable thread, the loop every ready task); a send that
\* was begun completes or fails; and a context waiting at "with clients_lock"
\* gets the lock when it is released again and again, which needs strong
\* fairness because others take the lock in between. Nothing obliges the
\* engine to call back, a client to connect or a connection to end.
LiveHandlers == {1}

LiveNext ==
  \/ \E h \in LiveHandlers : HRegisterAcquire(h)
  \/ \E h \in LiveHandlers : HRegister(h)
  \/ \E h \in LiveHandlers : \E cause \in {"clean", "error", "cancel"} : HLeave(h, cause)
  \/ \E h \in LiveHandlers : HCleanupAcquire(h)
  \/ \E h \in LiveHandlers : HCleanup(h)
  \/ \E t \in Threads : \E text \in Texts : OnText(t, text)
  \/ PublishNext

Fairness ==
  /\ \A t \in Threads :
       /\ WF_vars(BCheck(t))
       /\ SF_vars(BSnapshotAcquire(t))
       /\ WF_vars(BSnapshot(t))
       /\ WF_vars(\E c \in Clients : BSendBegin(t, c))
       /\ WF_vars(BSendOk(t) \/ BSendFail(t))
       /\ SF_vars(BDiscardAcquire(t))
       /\ WF_vars(BDiscard(t))
       /\ WF_vars(BReturn(t))
  /\ \A h \in LiveHandlers :
       /\ WF_vars(HRegister(h))
       /\ SF_vars(HCleanupAcquire(h))
       /\ WF_vars(HCleanup(h))

SpecLive == Init /\ [][LiveNext]_vars /\ Fairness

\* The relay: the session log and a subscriber together. The main thread runs
\* from the creation of the session file to its close, one websocket connects
\* and leaves, and the engine delivers one callback at a time, none before
\* create_session_file has returned (the recorder, which makes the calls, is
\* created after it, lines 128-136). The partial results carry the beginning
\* of the sentence, the final result all of it.
RelayText(t) == IF IsFinal(t) THEN "hello world" ELSE "hello"

RelayOnText(t, text) ==
  /\ mpc # "init"
  /\ SerialOnText(t, text)

RelayNext ==
  \/ \E h \in LiveHandlers : HRegisterAcquire(h)
  \/ \E h \in LiveHandlers : HRegister(h)
  \/ \E h \in LiveHandlers : \E cause \in {"clean", "error", "cancel"} : HLeave(h, cause)
  \/ \E h \in LiveHandlers : HCleanupAcquire(h)
  \/ \E h \in LiveHandlers : HCleanup(h)
  \/ \E t \in Threads : RelayOnText(t, RelayText(t))
  \/ LogNext
  \/ PublishNext
  \/ MainNext

SpecRelay == Init /\ [][RelayNext]_vars

\* Registration: the hub with a websocket that is handed to websocket_handler
\* twice, so that lines 101-102 run for a websocket that is already in the
\* set. All but the last websocket take part.
RegHandlers == {h \in Handlers : Socket(h) < NumClients}

RegNext ==
  \/ \E h \in RegHandlers : HRegisterAcquire(h)
  \/ \E h \in RegHandlers : HRegister(h)
  \/ \E h \in RegHandlers : \E cause \in {"clean", "error", "cancel"} : HLeave(h, cause)
  \/ \E h \in RegHandlers : HCleanupAcquire(h)
  \/ \E h \in RegHandlers : HCleanup(h)
  \/ \E t \in Threads : \E text \in Texts : SerialOnText(t, text)
  \/ PublishNext

SpecReg == Init /\ [][RegNext]_vars

\* The session log: the main thread against the callbacks of both threads,
\* with no subscriber connecting, so broadcast_transcript returns at line 60.
LoggerNext ==
  \/ \E t \in Threads : \E text \in Texts : OnText(t, text)
  \/ LogNext
  \/ \E t \in Threads : BCheck(t)
  \/ MainNext

SpecLog == Init /\ [][LoggerNext]_vars

\* ---------------------------------------------------------------- claims
InPublish(t) == pc[t] \in {"bloop", "bsend", "bexc", "bdisc"}

\* the loop at line 73 has nothing left: the call is about to return
LoopOver(t) == pc[t] = "bloop" /\ todo[t] = {}

\* C1: fan-out completeness. During a publish, every member of the snapshot
\* is either still to be iterated or has had exactly one send attempt; no
\* client outside the snapshot, so none registered after it was taken, has an
\* attempt or a payload; a client whose send succeeded holds exactly one copy
\* of the message serialized once for this call from the event's text and
\* flag; and a client whose send failed or is still in progress holds none.
C1_FanOutCompleteness ==
  \A t \in Threads : InPublish(t) =>
    /\ todo[t] \subseteq snap[t]
    /\ \A c \in Clients :
         /\ attempts[t][c] <= 1
         /\ (attempts[t][c] = 1) = (c \in snap[t] \ todo[t])
         /\ c \notin snap[t] => received[t][c] = << >>
         /\ (attempts[t][c] = 1 /\ c \notin failed[t] /\ cur[t] # c)
              => received[t][c] = << msg[t] >>
         /\ (attempts[t][c] = 0 \/ c \in failed[t] \/ cur[t] = c)
              => received[t][c] = << >>
    /\ msg[t] = [text |-> ev[t].text, is_final |-> ev[t].is_final,
                 timestamp |-> "HH:MM:SS"]

\* a publish is over; two snapshot members received the message, and a client
\* that registered after the snapshot is in the set and received nothing
C1_Witness ==
  \E t \in Threads : \E a, b, c \in Clients :
    /\ LoopOver(t)
    /\ a # b
    /\ {a, b} \subseteq snap[t]
    /\ received[t][a] = << msg[t] >>
    /\ received[t][b] = << msg[t] >>
    /\ c \in connected_clients \ snap[t]
    /\ received[t][c] = << >>

\* C2: failure isolation. When a publish is about to return, every snapshot
\* member has had its send attempt, whatever the position of the failed ones
\* in the iteration; every member whose send did not fail holds the message;
\* no member whose send failed is in connected_clients; and no exception has
\* left the call.
C2_FailureIsolation ==
  \A t \in Threads :
    /\ LoopOver(t) =>
         /\ \A c \in snap[t] : attempts[t][c] = 1
         /\ \A c \in snap[t] \ failed[t] : received[t][c] = << msg[t] >>
         /\ failed[t] \cap connected_clients = {}
    /\ (pc[t] = "idle" \/ InPublish(t)) => exc[t] = NoExc

\* a publish over three subscribers is about to return; exactly one send
\* failed and the other two subscribers hold the message
C2_Witness ==
  \E t \in Threads : \E S \in Clients :
    /\ LoopOver(t)
    /\ snap[t] = Clients
    /\ Cardinality(snap[t]) >= 3
    /\ failed[t] = {S}
    /\ S \notin connected_clients
    /\ \A c \in Clients \ {S} : received[t][c] = << msg[t] >>

\* C3: non-blocking producer. Whenever a send of the current publish is in
\* progress, on_text has returned to the event source, which can dispatch the
\* next callback.
C3_NonBlockingProducer ==
  \A t \in Threads : pc[t] = "bsend" => ENABLED OnText(t, "hello")

\* C4: logger quiescence after close. An on_text call that begins after the
\* session file was closed raises nothing in log_transcript.
C4_QuiescentAfterClose ==
  \A t \in Threads : late[t] => exc[t] = NoExc

\* C5: logger quiescence before open. As long as create_session_file has not
\* run, whatever calls of log_transcript were made, no call is past the test
\* of line 46, nothing was raised, nothing is written, no file exists, and
\* session_file and session_start_time are still None.
C5_QuiescentBeforeOpen ==
  mpc = "init" =>
    /\ \A t \in Threads : pc[t] \notin {"log1", "log2"} /\ exc[t] = NoExc
    /\ content = << >>
    /\ files = 0
    /\ session_file = "None"
    /\ session_start_time = "None"

\* before create_session_file, a call of on_text is past log_transcript
C5_Witness ==
  /\ mpc = "init"
  /\ \E t \in Threads : pc[t] = "bcheck" /\ ev[t].text = "hello world"

\* C6: lock discipline. No operation on connected_clients (truth test, copy,
\* add, discard) was ever made by a context not holding clients_lock.
C6_LockDiscipline == unguarded = {}

\* C7: the lock never spans a send. While a send is in progress the publisher
\* does not hold clients_lock, a publisher holds it only at lines 70 and 79,
\* and a connection that wants to register or to unregister can take the lock.
C7_LockNeverSpansSend ==
  /\ \A t \in Threads : (clients_lock = t) = (pc[t] \in {"bcopy", "bdisc"})
  /\ \A t \in Threads : pc[t] = "bsend" =>
       /\ clients_lock # t
       /\ \A c \in Clients :
            /\ (hpc[c] = "new" /\ ~LoopBusy) => ENABLED HRegisterAcquire(c)
            /\ hpc[c] = "adding" => ENABLED HRegister(c)
            /\ hpc[c] = "left" => ENABLED HCleanupAcquire(c)
            /\ hpc[c] = "discarding" => ENABLED HCleanup(c)

\* a send is in progress while one connection has just registered under the
\* lock's protection and another is about to
C7_Witness ==
  \E t \in Threads : \E c, d \in Clients :
    /\ pc[t] = "bsend"
    /\ cur[t] # c
    /\ c \in connected_clients \ snap[t]
    /\ hpc[d] = "adding"
    /\ clients_lock = "loop"

\* C8: idempotent unregister. A discard of a client that is not in
\* connected_clients, by a handler's cleanup or after a failed send, leaves
\* the set as it was and raises nothing.
C8_IdempotentUnregister ==
  [][ /\ \A c \in Clients :
           (hpc[c] = "discarding" /\ hpc'[c] # "discarding"
              /\ c \notin connected_clients)
             => (connected_clients' = connected_clients /\ herr'[c] = NoExc)
      /\ \A t \in Threads :
           (pc[t] = "bdisc" /\ pc'[t] # "bdisc" /\ cur[t] \notin connected_clients)
             => (connected_clients' = connected_clients /\ exc'[t] = NoExc
                 /\ pc'[t] = "bloop") ]_vars

\* a client was discarded twice, after its failed send and by its handler's
\* cleanup, nothing was raised, and another member is still in the set
C8_Witness ==
  \E t \in Threads : \E c \in Clients :
    /\ pc[t] = "bloop"
    /\ c \in failed[t]
    /\ hpc[c] = "done"
    /\ unregistered[c] = 1
    /\ herr[c] = NoExc
    /\ exc[t] = NoExc
    /\ connected_clients # {}

\* C9: connection lifecycle. A handler that has left its read loop, for
\* whatever cause, is on its way to the cleanup; it has executed its discard
\* exactly once when it is done and never before; and when it is done its
\* client is not in connected_clients.
C9_ConnectionLifecycle ==
  \A c \in Clients :
    /\ hpc[c] = "done" => (unregistered[c] = 1 /\ c \notin connected_clients)
    /\ hpc[c] # "done" => unregistered[c] = 0
    /\ hexit[c] # "none" => hpc[c] \in {"left", "discarding"}
    /\ hpc[c] \in {"left", "discarding"} => hexit[c] \in {"clean", "error", "cancel"}

\* one handler is done and unregistered once while another, cancelled, is in
\* its cleanup
C9_Witness ==
  \E c, d \in Clients :
    /\ hpc[c] = "done"
    /\ unregistered[c] = 1
    /\ hpc[d] = "discarding"
    /\ hexit[d] = "cancel"

\* the blocks log_transcript is to write for a sequence of calls
RECURSIVE ExpectedBlocks(_)
ExpectedBlocks(cs) ==
  IF cs = << >> THEN << >>
  ELSE << <<"[", "HH:MM:SS", "] [",
             IF Head(cs).is_final THEN "FINAL" ELSE "PARTIAL", "]", "nl">>,
          <<"Text: ", Head(cs).text, "nl", "nl">> >> \o ExpectedBlocks(Tail(cs))

AllIdle == \A t \in Threads : ~Writing(t)

\* C10: log append order. When the calls of log_transcript within the open
\* session came one after the other (none began while another writer was at
\* work) and none is in progress, the file holds the header, then one block
\* per call in invocation order, each tagged FINAL when is_final is true and
\* PARTIAL otherwise, then, once the session is closed, the footer.
C10_LogAppendOrder ==
  (~overlap /\ AllIdle /\ mpc \in {"serving", "listening", "stop", "footer1", "done"}) =>
    /\ Len(content) >= 3
    /\ SubSeq(content, 1, 3) = Header
    /\ content = Header \o ExpectedBlocks(calls)
                   \o (IF mpc = "done" THEN <<FooterRule, FooterEnd, FooterDuration>>
                       ELSE << >>)

\* a closed session with a PARTIAL and a FINAL block, written one after the
\* other
C10_Witness ==
  /\ mpc = "done"
  /\ ~overlap
  /\ AllIdle
  /\ Len(calls) = 2
  /\ calls[1].is_final # calls[2].is_final
  /\ Len(content) = 10

\* C11: no loss, duplication or coalescing at dispatch. A call of on_text,
\* which enters log_transcript once when it begins, comes back to the engine
\* only out of broadcast_transcript (from its return at line 60 or from the
\* end of its loop) and without an exception: no call ends before its event
\* was handed to broadcast_transcript.
C11_DispatchExactlyOnce ==
  [][ \A t \in Threads :
        (pc[t] # "idle" /\ pc'[t] = "idle")
          => (pc[t] \in {"bcheck", "bloop"} /\ exc'[t] = NoExc) ]_vars

\* C12: the shutdown path. Creating the recorder is begun at most once (no
\* retry); recorder.stop() is called once when a recorder was created and
\* never otherwise; the footer is written and the file closed only after
\* that; the file is closed at most once, and exactly once when the main
\* thread is through.
ShutdownStages == {"footer1", "footer2", "footer3", "close", "done"}

IsFooterLine(w) == w \in {FooterRule, FooterEnd, FooterDuration}

C12_ShutdownOnce ==
  /\ inits <= 1
  /\ closes <= 1
  /\ stops = (IF recorder # "absent" /\ mpc \in ShutdownStages THEN 1 ELSE 0)
  /\ (closes = 1) <=> (mpc = "done")
  /\ session_file = "closed" <=> (closes = 1)
  /\ mpc \in {"close", "done"} =>
       SelectSeq(content, IsFooterLine) = <<FooterRule, FooterEnd, FooterDuration>>

\* the recorder was created, the listening loop was interrupted, stop() was
\* called and the log is closed
C12_Witness ==
  /\ mpc = "done"
  /\ recorder = "stopped"
  /\ inits = 1
  /\ stops = 1
  /\ closes = 1

\* C13: set semantics of registration. When lines 101-102 run for a websocket
\* that is already a member, the set is left as it was and nothing is raised;
\* and whatever was registered how often, a publish makes at most one send
\* attempt per subscriber and delivers at most one copy to it.
C13_RegisterIdempotent ==
  /\ [][ \A h \in Handlers :
           (hpc[h] = "adding" /\ hpc'[h] = "reading"
              /\ Socket(h) \in connected_clients)
             => (connected_clients' = connected_clients /\ herr'[h] = NoExc) ]_vars
  /\ [](\A t \in Threads : \A c \in Clients :
           /\ attempts[t][c] <= 1
           /\ Len(received[t][c]) <= 1
           /\ received[t][c] # << >> => received[t][c] = <<msg[t]>>)

\* websocket 1 was registered by two handlers, both still reading, and a
\* publish has sent it one copy
C13_Witness ==
  \E t \in Threads :
    /\ hpc[1] = "reading"
    /\ hpc[Second] = "reading"
    /\ Socket(Second) \in snap[t]
    /\ LoopOver(t)
    /\ attempts[t][Socket(Second)] = 1
    /\ received[t][Socket(Second)] = <<msg[t]>>

\* C14: a publish removes only the subscribers whose send failed. No step of
\* a publish adds a member to connected_clients; a step of a publish takes out
\* at most the snapshot member whose send has just failed, to which nothing
\* was delivered; and when the loop is over every member whose send failed is
\* out of the set.
C14_RemovesOnlyFailed ==
  /\ [][ \A t \in Threads :
           pc'[t] # pc[t] =>
             /\ connected_clients' \subseteq connected_clients
             /\ (connected_clients \ connected_clients')
                  \subseteq (failed[t] \cap snap[t] \cap {cur[t]})
             /\ \A c \in connected_clients \ connected_clients' :
                  received[t][c] = << >> ]_vars
  /\ [](\A t \in Threads : LoopOver(t) => failed[t] \cap connected_clients = {})

\* a publish is over: one send failed and that member is gone, one succeeded
\* and that member is still registered, as is one that joined after the
\* snapshot
C14_Witness ==
  \E t \in Threads : \E a, b, c \in Clients :
    /\ LoopOver(t)
    /\ a \in failed[t] /\ a \notin connected_clients
    /\ b \in snap[t] \ failed[t] /\ b \in connected_clients /\ hpc[b] = "reading"
    /\ c \in connected_clients \ snap[t]

\* C15: no retry on send failure. Within a publish each subscriber gets at
\* most one send attempt, and one whose send failed is not a target again; at
\* the end of the publish it is out of connected_clients; and as long as its
\* handler keeps reading after that, it is not put back and no send attempt
\* to it begins.
Dropped(c) == hpc[c] = "reading" /\ c \notin connected_clients

C15_NoRetry ==
  /\ [](\A t \in Threads :
          /\ \A c \in Clients : attempts[t][c] <= 1
          /\ failed[t] \cap Targets(t) = {}
          /\ LoopOver(t) => failed[t] \cap connected_clients = {})
  /\ [][ \A c \in Clients :
           (Dropped(c) /\ hpc'[c] = "reading")
             => /\ c \notin connected_clients'
                /\ \A t \in Threads :
                     /\ attempts'[t][c] <= attempts[t][c]
                     /\ cur'[t] = c => cur[t] = c ]_vars

\* a subscriber was dropped by an earlier publish and its handler still
\* reads; a later publish is over that delivered to another subscriber and
\* made no attempt to the dropped one
C15_Witness ==
  \E t \in Threads : \E c, d \in Clients :
    /\ Dropped(c)
    /\ LoopOver(t)
    /\ c \notin snap[t]
    /\ attempts[t][c] = 0
    /\ d \in snap[t]
    /\ received[t][d] = <<msg[t]>>

\* C16: single writer. No two contexts are between the writes of their
\* blocks at the same time, the main thread does not write the footer while a
\* callback is inside log_transcript's writes, and in the file the first line
\* of every block is followed at once by the second line of that block.
IsStampLine(w) == w \in {StampLine(TRUE), StampLine(FALSE)}
IsTextLine(w) == \E text \in Texts : w = TextLine(text)

C16_SingleWriter ==
  /\ \A t, u \in Threads : (t # u /\ Writing(t)) => ~Writing(u)
  /\ \A t \in Threads : Writing(t) => ~MainWriting
  /\ \A i \in 1..Len(content) :
       IsStampLine(content[i]) =>
         \/ i = Len(content)
         \/ IsTextLine(content[i + 1])

\* C17: the registry contains only live connections. Every member of
\* connected_clients is the websocket of a handler that has done its add and
\* has not yet done its discard; and a snapshot taken when a subscriber's
\* handler has finished does not contain that subscriber, so that the publish
\* makes no send attempt to it.
Live(c) == hpc[c] \in {"reading", "left", "discarding"}

C17_OnlyLiveConnections ==
  /\ [](\A c \in connected_clients : Live(c))
  /\ [](\A t \in Threads : \A c \in Clients :
          attempts[t][c] > 0 => c \in snap[t])
  /\ [][ \A t \in Threads : \A c \in Clients :
           (pc[t] = "bcopy" /\ pc'[t] # "bcopy" /\ hpc[c] = "done")
             => c \notin snap'[t] ]_vars

\* one handler has finished after having been registered, another is still
\* reading; a publish has taken its snapshot since and has delivered to the
\* second only
C17_Witness ==
  \E t \in Threads : \E c, d \in Clients :
    /\ hpc[c] = "done"
    /\ unregistered[c] = 1
    /\ Live(d)
    /\ LoopOver(t)
    /\ snap[t] = {d}
    /\ attempts[t][c] = 0
    /\ received[t][d] = <<msg[t]>>

\* C18: deadlock freedom and termination. The lock is held exactly by the
\* context that is inside one of the with-blocks, so no context asks for it
\* while holding it; a held lock is released; and under fair scheduling every
\* publish comes back to the engine, every registration reaches the read loop
\* and every cleanup finishes.
LockHolders ==
  {t \in Threads : pc[t] \in {"bcopy", "bdisc"}}
    \cup {"loop" : h \in {k \in Handlers : hpc[k] \in {"adding", "discarding"}}}

C18_LockTermination ==
  /\ [](LockHolders = (IF clients_lock = Free THEN {} ELSE {clients_lock}))
  /\ [](\A t \in Threads :
          pc[t] \in {"block", "bexc"} => clients_lock # t)
  /\ [](\A h \in Handlers :
          hpc[h] = "left" => clients_lock # "loop")
  /\ (clients_lock # Free) ~> (clients_lock = Free)
  /\ \A t \in Threads : (pc[t] # "idle") ~> (pc[t] = "idle")
  /\ \A h \in Handlers : (hpc[h] = "adding") ~> (hpc[h] = "reading")
  /\ \A h \in Handlers : (hpc[h] = "left") ~> (hpc[h] = "done")

\* a handler waits for the lock to unregister while a publisher holds it to
\* take out a subscriber whose send failed
C18_Witness ==
  \E t, u \in Threads : \E h \in Handlers :
    /\ hpc[h] = "left"
    /\ pc[t] = "bdisc"
    /\ clients_lock = t
    /\ pc[u] = "block"

\* C19: log before broadcast. Once a call of on_text that began with a session
\* file has got as far as broadcast_transcript, both lines of its block are in
\* the file, in their order and as the latest such lines written; so whenever
\* a subscriber was sent the event, or a send of it is in progress, the event
\* is in the log.
Published(t) == pc[t] \in {"bcheck", "block", "bcopy", "bloop", "bsend", "bexc", "bdisc"}

StampsUpTo(n) == Cardinality({k \in 1..n : IsStampLine(content[k])})
TextsUpTo(n) == Cardinality({k \in 1..n : IsTextLine(content[k])})

C19_LogBeforeBroadcast ==
  \A t \in Threads :
    Published(t) =>
      /\ calls # << >>
      /\ calls[Len(calls)] = ev[t]
      /\ \E i, j \in 1..Len(content) :
           /\ i < j
           /\ content[i] = StampLine(ev[t].is_final)
           /\ content[j] = TextLine(ev[t].text)
           /\ StampsUpTo(i) = Len(calls)
           /\ TextsUpTo(j) = Len(calls)

\* the second event of the session, a final one, has been delivered to the
\* subscriber and is in the log
C19_Witness ==
  \E t \in Threads :
    /\ IsFinal(t)
    /\ Len(calls) = 2
    /\ LoopOver(t)
    /\ received[t][1] = <<json_dumps(ev[t].text, TRUE)>>
    /\ \E i \in 1..Len(content) : content[i] = TextLine(ev[t].text)

====
